---- MODULE Spec2Model ----
(***************************************************************************)
(* A model of utils/dataset.py: the fingerprinted on-disk cache of         *)
(* SizeBucketDataset, the cache pass of DatasetManager, the trimming,      *)
(* selection and rank sharding of ConcatenatedDataset / Dataset, and the   *)
(* epoch-tracking PipelineDataLoader.                                      *)
(*                                                                         *)
(* The module holds several specifications over one set of variables; a    *)
(* specification leaves the variables of the other parts at their initial  *)
(* values.                                                                 *)
(*   SpecCache : one process at a time calling _cache_latents and          *)
(*               _cache_text_embedding on its datasets, and process        *)
(*               restarts over the same disk.                              *)
(***************************************************************************)
EXTENDS Integers, Sequences, FiniteSets, TLC

VARIABLES
    \* ---- the cache (SizeBucketDataset._map_and_cache) ----
    disk,                    \* the cache files present on disk
    registered,              \* the SizeBucketDatasets of the running process, in order
    default_args,            \* the list object that is _map_and_cache's default new_fingerprint_args
    latent_dataset,          \* per dataset: fingerprint of self.latent_dataset, <<>> while unset
    text_embedding_datasets, \* per dataset: fingerprints of self.text_embedding_datasets
    last,                    \* history: the latest _map_and_cache call of the running process
    prev,                    \* history: the call before it
    prevrun,                 \* history: the datasets and columns of the process that ran before
    repeated,                \* history: the running process has cached some column twice
    ncalls                   \* history: number of _map_and_cache calls so far

    ,
    \* ---- the cache pass of DatasetManager, one entry per process ----
    pc,                      \* where the process is in DatasetManager.cache()
    proc_args,               \* the process's default new_fingerprint_args list
    pending,                 \* the _map_and_cache call the process is inside of
    columns,                 \* per dataset: latent_dataset and text_embedding_datasets
    device,                  \* where the process holds the vae and the text encoders
    writers,                 \* history: the processes that unlinked or wrote a cache file
    missed,                  \* history: the processes that found a cache file absent
    trace                    \* history: the model moves and cache calls of the process

    ,
    \* ---- Dataset / ConcatenatedDataset / SizeBucketDataset, one entry per process ----
    sizes,                   \* per size bucket, per directory: number of samples found
    world,                   \* world size, per-device batch size, accumulation steps
    rank,                    \* the data_parallel_rank the process passes to post_init
    rng,                     \* the state of the process-wide generator of module random
    dpc,                     \* "new", "built", "raised", "ready", "iter", "stop" or "error"
    sample_order,            \* per bucket, per SizeBucketDataset: its samples in order
    bucket_order,            \* per bucket: ConcatenatedDataset.iteration_order
    dataset,                 \* the fields post_init sets on Dataset
    iters,                   \* the positions of the iterators of Dataset.__iter__
    yielded,                 \* the batch the latest next() on the Dataset built and yielded
    untrimmed,               \* history: bucket_order as it was before post_init
    warned,                  \* history: the buckets _make_divisible_by warned about
    delivered                \* history: the global batches the pass has built so far

    ,
    \* ---- PipelineDataLoader ----
    loader,                  \* the Dataset it wraps: its length and its post_init sizes
    epoch,                   \* self.epoch
    num_batches_pulled,      \* self.num_batches_pulled
    data,                    \* self.data: the generator _pull_batches_from_dataloader
    returned,                \* what the latest next() returned, or that it raised
    ncalls_next              \* history: next() calls since construction or reset()

    ,
    \* ---- PipelineDataLoader.sync_epoch, one entry per process of the world group ----
    sync_pc,                 \* "before", "gather", "gathered" or "done"
    self_epoch,              \* the process's self.epoch
    gathering,               \* the objects handed to all_gather_object so far
    result,                  \* the process's result list
    entry_epoch              \* history: self.epoch when the process called sync_epoch

    ,
    \* ---- the columns of one SizeBucketDataset ----
    num_rows,                \* len(self.image_file_and_caption_dataset)
    unreadable,              \* the rows whose image file Image.open cannot open
    latent_column,           \* self.latent_dataset: its rows, <<>> while unset
    text_columns,            \* self.text_embedding_datasets: the rows of each
    col_state,               \* "new", "latents" (latents cached) or "raised"
    item                     \* what the latest __getitem__(i) returned or raised

    ,
    \* ---- Dataset._split_into_size_buckets on one directory ----
    path_kind,               \* the path is "missing", a "file" or a "directory"
    files,                   \* the sorted directory listing
    size_buckets,            \* the candidate size buckets, a list
    scan_pc,                 \* "start", "loop", "returned" or "raised"
    scan_at,                 \* the position in files the loop is at
    size_bucket_to_filepaths,  \* per size bucket: the files appended to it
    scan_warned,             \* history: the files a warning was logged for
    closest                  \* history: the latest _find_closest_size_bucket call

    ,
    \* ---- shuffle_with_seed and the generator of module random ----
    generator,               \* the state of the process-wide generator
    last_shuffle,            \* history: the latest shuffle_with_seed call
    prev_shuffle             \* history: the call before it

dataVars == <<sizes, world, rank, rng, dpc, sample_order, bucket_order, dataset, iters,
              yielded, untrimmed, warned, delivered>>

loaderVars == <<loader, epoch, num_batches_pulled, data, returned, ncalls_next>>

syncVars == <<sync_pc, self_epoch, gathering, result, entry_epoch>>

columnVars == <<num_rows, unreadable, latent_column, text_columns, col_state, item>>

scanVars == <<path_kind, files, size_buckets, scan_pc, scan_at, size_bucket_to_filepaths,
              scan_warned, closest>>

shuffleVars == <<generator, last_shuffle, prev_shuffle>>

cacheVars == <<default_args, latent_dataset, text_embedding_datasets,
               last, prev, prevrun, repeated, ncalls>>

managerVars == <<pc, proc_args, pending, columns, device, writers, missed, trace>>

\* the state of the components that have a specification of their own further down
otherVars == <<syncVars, columnVars, scanVars, shuffleVars>>

besidesSync == <<columnVars, scanVars, shuffleVars>>

besidesColumns == <<syncVars, scanVars, shuffleVars>>

besidesScan == <<syncVars, columnVars, shuffleVars>>

besidesShuffle == <<syncVars, columnVars, scanVars>>

vars == <<disk, registered, cacheVars, managerVars, dataVars, loaderVars, otherVars>>

(***************************************************************************)
(* Bounds                                                                  *)
(***************************************************************************)
MaxCalls == 4      \* _map_and_cache calls in one behaviour
NumProcs == 3      \* processes running DatasetManager.cache(); process 0 coordinates
NumTextEncoders == 2   \* length of model.get_text_encoders()
MaxSamples == 4    \* samples of one directory in one size bucket
MaxWorld == 3      \* data_parallel_world_size
MaxBatch == 2      \* per_device_batch_size
MaxAccum == 2      \* gradient_accumulation_steps
MaxBatches == 3    \* len(dataset) of the Dataset a PipelineDataLoader wraps
MaxNext == 14      \* next() calls on a PipelineDataLoader since construction or reset()
MaxEpoch == 3      \* self.epoch of a process when it calls sync_epoch
MaxListLen == 3    \* length of a list handed to shuffle_with_seed
MaxDraws == 3      \* values other code draws from the generator of module random
MaxStems == 2      \* file stems in the directory _split_into_size_buckets scans
MaxCandidates == 2 \* length of the size_buckets list

(***************************************************************************)
(* Inputs of the cache: dataset directories and their caption settings     *)
(***************************************************************************)
\* sample list and caption-processing parameters of a directory config
Settings == { [samples |-> "s1", shuffle_tags |-> FALSE, caption_prefix |-> ""],
              [samples |-> "s1", shuffle_tags |-> FALSE, caption_prefix |-> "x"],
              [samples |-> "s1", shuffle_tags |-> TRUE,  caption_prefix |-> ""],
              [samples |-> "s2", shuffle_tags |-> FALSE, caption_prefix |-> ""] }

BaseSettings == [samples |-> "s1", shuffle_tags |-> FALSE, caption_prefix |-> ""]

WithSettings(c, s) ==
    [path |-> c.path, size_bucket |-> c.size_bucket, samples |-> s.samples,
     shuffle_tags |-> s.shuffle_tags, caption_prefix |-> s.caption_prefix]

Place1 == [path |-> "A", size_bucket |-> <<512, 512>>]
Place2 == [path |-> "A", size_bucket |-> <<768, 512>>]

\* the lists of SizeBucketDatasets of the first process: one dataset, two datasets
\* of different cache directories, and one directory listed twice
InitialLists ==
    { <<WithSettings(Place1, BaseSettings)>>,
      <<WithSettings(Place1, BaseSettings), WithSettings(Place2, BaseSettings)>>,
      <<WithSettings(Place1, BaseSettings), WithSettings(Place1, BaseSettings)>> }

\* the indices i of the text encoders used with _cache_text_embedding(i)
TextEncoderIndices == {0, 9}

(***************************************************************************)
(* Fingerprints and file names                                             *)
(***************************************************************************)
\* self.cache_dir = path / 'cache' / f'cache_{w}x{h}'
cache_dir(c) == <<c.path, c.size_bucket[1], c.size_bucket[2]>>

\* The fingerprint of image_file_and_caption_dataset: datasets derives it from the
\* content of from_dict (the shuffled sample list) and from the caption map
\* function with its closure (shuffle_tags, caption_prefix).  A fingerprint is
\* modelled as a number, distinct for distinct (samples, shuffle_tags,
\* caption_prefix); numbers from 100 on never equal a text encoder index.
base_fingerprint(c) ==
    100 + (IF c.samples = "s1" THEN 0 ELSE 4)
        + (IF c.shuffle_tags THEN 2 ELSE 0)
        + (IF c.caption_prefix = "" THEN 0 ELSE 1)

\* Hasher.hash(list): a collision-free hash is modelled by the hashed list
Hasher_hash(args) == [h |-> args]

\* decimal digits of n, as f'{n}' prints them
RECURSIVE Digits(_)
Digits(n) ==
    LET d == <<"0", "1", "2", "3", "4", "5", "6", "7", "8", "9">>
    IN  IF n < 10 THEN <<d[n + 1]>> ELSE Digits(n \div 10) \o <<d[(n % 10) + 1]>>

\* cache_file_prefix of _cache_latents, as the characters before the fingerprint
LatentPrefix == <<"latent_">>

\* cache_file_prefix of _cache_text_embedding(i): f'text_embedding_{i+1}_'
TextEmbeddingPrefixOpen(i) == <<"text_embedding_">> \o Digits(i + 1)
TextEmbeddingPrefix(i) == <<"text_embedding_">> \o Digits(i + 1) \o <<"_">>

\* self.cache_dir / f'{cache_file_prefix}{new_fingerprint}.arrow'
cache_file(c, pre, fp) == [dir |-> cache_dir(c), pre |-> pre, fp |-> fp]

IsPrefixOf(p, s) == Len(p) <= Len(s) /\ SubSeq(s, 1, Len(p)) = p

\* self.cache_dir.glob(f'{cache_file_prefix}*.arrow'): the files of the directory
\* whose name starts with the prefix (a fingerprint is hexadecimal and holds no '_')
glob(dsk, dir, pre) == { f \in dsk : f.dir = dir /\ IsPrefixOf(pre, f.pre) }

\* the files _map_and_cache unlinks: none on a hit, every glob match on a miss
NoStaleFiles(dsk, c, pre, file) == {}
StaleFiles(dsk, c, pre, file) ==
    IF file \in dsk THEN {} ELSE glob(dsk, cache_dir(c), pre)

\* new_fingerprint_args.append(dataset._fingerprint)
fingerprint_args(c, args_in) == Append(args_in, base_fingerprint(c))

\* _map_and_cache(dataset, map_fn, cache_file_prefix, new_fingerprint_args):
\* args_in is the list object passed (or the default list); the result holds the
\* list after the append, the fingerprint, and the disk after dataset.map, which
\* loads cache_file when it exists and otherwise computes every sample and writes it
map_and_cache(dsk, c, pre, args_in) ==
    LET args == fingerprint_args(c, args_in)
        fp == Hasher_hash(args)
        file == cache_file(c, pre, fp)
        stale == StaleFiles(dsk, c, pre, file)
        unlinked == dsk \ stale
    IN  [args |-> args, fp |-> fp, file |-> file, hit |-> file \in dsk,
         deleted |-> stale, recomputed |-> file \notin unlinked,
         disk |-> unlinked \cup {file}]

\* history record of one _map_and_cache call; first: the dataset had not cached
\* this column before in this process
NoCall == [kind |-> "none", ds |-> 0, pre |-> <<>>, params |-> <<>>, fp |-> <<>>,
           file |-> <<>>, hit |-> FALSE, deleted |-> {}, recomputed |-> FALSE,
           first |-> FALSE]

CallRecord(kind, d, pre, params, r, first) ==
    [kind |-> kind, ds |-> d, pre |-> pre, params |-> params, fp |-> r.fp,
     file |-> r.file, hit |-> r.hit, deleted |-> r.deleted, recomputed |-> r.recomputed,
     first |-> first]

\* no process has run before the first one
NoRun == [registered |-> <<>>, latent_dataset |-> <<>>, text_embedding_datasets |-> <<>>,
          repeated |-> FALSE]

(***************************************************************************)
(* SpecCache                                                               *)
(***************************************************************************)
Unset(reg) == [d \in 1..Len(reg) |-> <<>>]

\* the values of the variables a specification does not use
IdleManager ==
    /\ pc = <<>>
    /\ proc_args = <<>>
    /\ pending = <<>>
    /\ columns = <<>>
    /\ device = <<>>
    /\ writers = {}
    /\ missed = {}
    /\ trace = <<>>

IdleData ==
    /\ sizes = <<>>
    /\ world = <<>>
    /\ rank = <<>>
    /\ rng = <<>>
    /\ dpc = <<>>
    /\ sample_order = <<>>
    /\ bucket_order = <<>>
    /\ dataset = <<>>
    /\ iters = <<>>
    /\ yielded = <<>>
    /\ untrimmed = <<>>
    /\ warned = <<>>
    /\ delivered = <<>>

IdleLoader ==
    /\ loader = <<>>
    /\ epoch = 0
    /\ num_batches_pulled = 0
    /\ data = <<>>
    /\ returned = <<>>
    /\ ncalls_next = 0

IdleSync ==
    /\ sync_pc = <<>>
    /\ self_epoch = <<>>
    /\ gathering = <<>>
    /\ result = <<>>
    /\ entry_epoch = <<>>

IdleColumns ==
    /\ num_rows = 0
    /\ unreadable = {}
    /\ latent_column = <<>>
    /\ text_columns = <<>>
    /\ col_state = ""
    /\ item = <<>>

IdleScan ==
    /\ path_kind = ""
    /\ files = <<>>
    /\ size_buckets = <<>>
    /\ scan_pc = ""
    /\ scan_at = 0
    /\ size_bucket_to_filepaths = <<>>
    /\ scan_warned = {}
    /\ closest = <<>>

IdleShuffle ==
    /\ generator = <<>>
    /\ last_shuffle = <<>>
    /\ prev_shuffle = <<>>

IdleOther ==
    /\ IdleSync
    /\ IdleColumns
    /\ IdleScan
    /\ IdleShuffle

IdleCache ==
    /\ default_args = <<>>
    /\ latent_dataset = <<>>
    /\ text_embedding_datasets = <<>>
    /\ last = NoCall
    /\ prev = NoCall
    /\ prevrun = NoRun
    /\ repeated = FALSE
    /\ ncalls = 0


InitCache ==
    /\ disk = {}
    /\ registered \in InitialLists
    /\ default_args = <<>>
    /\ latent_dataset = Unset(registered)
    /\ text_embedding_datasets = Unset(registered)
    /\ last = NoCall
    /\ prev = NoCall
    /\ prevrun = NoRun
    /\ repeated = FALSE
    /\ ncalls = 0
    /\ IdleManager
    /\ IdleData
    /\ IdleLoader
    /\ IdleOther

\* SizeBucketDataset._cache_latents(vae): no new_fingerprint_args is passed, so the
\* call appends to the default list of the function
CacheLatents(d) ==
    /\ ncalls < MaxCalls
    /\ LET r == map_and_cache(disk, registered[d], LatentPrefix, default_args)
       IN  /\ disk' = r.disk
           /\ default_args' = r.args
           /\ latent_dataset' = [latent_dataset EXCEPT ![d] = r.file]
           /\ last' = CallRecord("latent", d, LatentPrefix, <<>>, r, latent_dataset[d] = <<>>)
    /\ repeated' = (repeated \/ ~last'.first)
    /\ prev' = last
    /\ ncalls' = ncalls + 1
    /\ UNCHANGED <<registered, text_embedding_datasets, prevrun, managerVars, dataVars, loaderVars, otherVars>>

\* SizeBucketDataset._cache_text_embedding(i): passes the fresh list [i]
CacheTextEmbedding(d, i) ==
    /\ ncalls < MaxCalls
    /\ LET r == map_and_cache(disk, registered[d], TextEmbeddingPrefix(i), <<i>>)
       IN  /\ disk' = r.disk
           /\ text_embedding_datasets' =
                  [text_embedding_datasets EXCEPT ![d] = Append(@, r.file)]
           /\ last' = CallRecord("text", d, TextEmbeddingPrefix(i), <<i>>, r,
                                  ~\E k \in 1..Len(text_embedding_datasets[d]) :
                                      text_embedding_datasets[d][k].pre = TextEmbeddingPrefix(i))
    /\ repeated' = (repeated \/ ~last'.first)
    /\ prev' = last
    /\ ncalls' = ncalls + 1
    /\ UNCHANGED <<registered, default_args, latent_dataset, prevrun, managerVars, dataVars, loaderVars, otherVars>>

\* The process ends and a second one starts over the same disk, the settings of
\* dataset d changed to s (or not changed, when s is what they were): the module
\* is loaded anew, so the default list is empty again
Restart(d, s) ==
    /\ prevrun = NoRun
    /\ ncalls > 0
    /\ LET reg == [registered EXCEPT ![d] = WithSettings(@, s)]
       IN  /\ registered' = reg
           /\ latent_dataset' = Unset(reg)
           /\ text_embedding_datasets' = Unset(reg)
    /\ default_args' = <<>>
    /\ last' = NoCall
    /\ prev' = NoCall
    /\ prevrun' = [registered |-> registered, latent_dataset |-> latent_dataset,
                   text_embedding_datasets |-> text_embedding_datasets,
                   repeated |-> repeated]
    /\ repeated' = FALSE
    /\ UNCHANGED <<disk, ncalls, managerVars, dataVars, loaderVars, otherVars>>

NextCache ==
    \/ \E d \in 1..Len(registered) : CacheLatents(d)
    \/ \E d \in 1..Len(registered), i \in TextEncoderIndices : CacheTextEmbedding(d, i)
    \/ \E d \in 1..Len(registered), s \in Settings : Restart(d, s)

SpecCache == InitCache /\ [][NextCache]_vars

(***************************************************************************)
(* SpecManager: DatasetManager.cache() run by NumProcs processes           *)
(***************************************************************************)
Procs == 0..(NumProcs - 1)

\* utils.common.is_main_process
is_main_process(p) == p = 0

At(p, where) == pc[p].at = where

Goto(p, where, i, d) == pc' = [pc EXCEPT ![p] = [at |-> where, i |-> i, d |-> d]]

NoPending == [file |-> <<>>, args |-> <<>>]

\* model.get_vae() and model.get_text_encoders()[i]
Vae == [model |-> "vae", i |-> 0]

TextEncoder(i) == [model |-> "text_encoder", i |-> i]

\* where the process holds the model after model.to(where)
not_moved(dev, m, where) == dev
moved(dev, m, where) ==
    IF m.model = "vae" THEN [dev EXCEPT !.vae = where]
    ELSE [dev EXCEPT !.text_encoders[m.i] = where]

Log(p, op, m, d) ==
    trace' = [trace EXCEPT ![p] = Append(@, [op |-> op, m |-> m, d |-> d])]

InitManager ==
    /\ disk = {}
    /\ registered \in InitialLists
    /\ pc = [p \in Procs |-> [at |-> "cache", i |-> 0, d |-> 0]]
    /\ proc_args = [p \in Procs |-> <<>>]
    /\ pending = [p \in Procs |-> NoPending]
    /\ columns = [p \in Procs |->
                    [d \in 1..Len(registered) |-> [latent |-> <<>>, text |-> <<>>]]]
    /\ device = [p \in Procs |->
                    [vae |-> "cpu",
                     text_encoders |-> [i \in 0..(NumTextEncoders - 1) |-> "cpu"]]]
    /\ writers = {}
    /\ missed = {}
    /\ trace = [p \in Procs |-> <<>>]
    /\ IdleCache
    /\ IdleData
    /\ IdleLoader
    /\ IdleOther

\* DatasetManager.cache: entering `with zero_first()`: every process but the
\* coordinating one waits at the barrier
EnterZeroFirst(p) ==
    /\ At(p, "cache")
    /\ IF is_main_process(p) THEN Goto(p, "vae_to_cuda", 0, 0) ELSE Goto(p, "barrier", 0, 0)
    /\ UNCHANGED trace
    /\ UNCHANGED <<disk, registered, cacheVars, proc_args, pending, columns, device,
                   writers, missed, dataVars, loaderVars, otherVars>>

\* the barrier opens when every process has reached it: the coordinating process
\* at the end of its pass, the others before theirs
Barrier ==
    /\ \A p \in Procs : IF is_main_process(p) THEN At(p, "leave") ELSE At(p, "barrier")
    /\ pc' = [p \in Procs |-> IF is_main_process(p)
                               THEN [at |-> "done", i |-> 0, d |-> 0]
                               ELSE [at |-> "vae_to_cuda", i |-> 0, d |-> 0]]
    /\ UNCHANGED trace
    /\ UNCHANGED <<disk, registered, cacheVars, proc_args, pending, columns, device,
                   writers, missed, dataVars, loaderVars, otherVars>>

\* _cache: vae = self.model.get_vae(); if is_main_process(): vae.to('cuda')
VaeToCuda(p) ==
    /\ At(p, "vae_to_cuda")
    /\ device' = [device EXCEPT ![p] = IF is_main_process(p) THEN moved(@, Vae, "cuda") ELSE @]
    /\ Goto(p, "latents", 0, 1)
    /\ IF is_main_process(p) THEN Log(p, "to", Vae, 0) ELSE UNCHANGED trace
    /\ UNCHANGED <<disk, registered, cacheVars, proc_args, pending, columns, writers, missed,
                   dataVars, loaderVars, otherVars>>

\* _map_and_cache up to the unlink loop, for the call the process is at
Unlink(p, c, pre, args_in) ==
    LET args == fingerprint_args(c, args_in)
        file == cache_file(c, pre, Hasher_hash(args))
        stale == StaleFiles(disk, c, pre, file)
    IN  /\ disk' = disk \ stale
        /\ pending' = [pending EXCEPT ![p] = [file |-> file, args |-> args]]
        /\ writers' = IF stale = {} THEN writers ELSE writers \cup {p}
        /\ missed' = IF file \in disk THEN missed ELSE missed \cup {p}

\* dataset.map(map_fn, cache_file_name=...): loads the file when it exists,
\* otherwise computes every sample and writes the file
Map(p) ==
    /\ disk' = disk \cup {pending[p].file}
    /\ writers' = IF pending[p].file \in disk THEN writers ELSE writers \cup {p}
    /\ pending' = [pending EXCEPT ![p] = NoPending]

\* for ds in self.datasets: ds._cache_latents(vae), first part
CacheLatentsUnlink(p) ==
    /\ At(p, "latents")
    /\ pc[p].d <= Len(registered)
    /\ Unlink(p, registered[pc[p].d], LatentPrefix, proc_args[p])
    /\ proc_args' = [proc_args EXCEPT ![p] = pending'[p].args]
    /\ Goto(p, "latents_map", 0, pc[p].d)
    /\ UNCHANGED trace
    /\ UNCHANGED <<registered, cacheVars, columns, device, dataVars, loaderVars, otherVars>>

\* ds._cache_latents(vae), second part: the map and self.latent_dataset = ...
CacheLatentsMap(p) ==
    /\ At(p, "latents_map")
    /\ columns' = [columns EXCEPT ![p][pc[p].d].latent = pending[p].file]
    /\ Map(p)
    /\ Goto(p, "latents", 0, pc[p].d + 1)
    /\ Log(p, "cache", Vae, pc[p].d)
    /\ UNCHANGED <<registered, cacheVars, proc_args, device, missed, dataVars, loaderVars, otherVars>>

\* vae.to('cpu'); empty_cuda_cache(); then the loop over the text encoders
VaeToCpu(p) ==
    /\ At(p, "latents")
    /\ pc[p].d > Len(registered)
    /\ device' = [device EXCEPT ![p] = moved(@, Vae, "cpu")]
    /\ Goto(p, "encoders", 0, 0)
    /\ Log(p, "back", Vae, 0)
    /\ UNCHANGED <<disk, registered, cacheVars, proc_args, pending, columns, writers, missed,
                   dataVars, loaderVars, otherVars>>

\* for i, text_encoder in enumerate(...): if is_main_process(): text_encoder.to('cuda')
TextEncoderToCuda(p) ==
    /\ At(p, "encoders")
    /\ pc[p].i < NumTextEncoders
    /\ device' = [device EXCEPT ![p] = IF is_main_process(p)
                                        THEN moved(@, TextEncoder(pc[p].i), "cuda") ELSE @]
    /\ Goto(p, "text", pc[p].i, 1)
    /\ IF is_main_process(p) THEN Log(p, "to", TextEncoder(pc[p].i), 0) ELSE UNCHANGED trace
    /\ UNCHANGED <<disk, registered, cacheVars, proc_args, pending, columns, writers, missed,
                   dataVars, loaderVars, otherVars>>

\* for ds in self.datasets: ds._cache_text_embedding(i), first part
CacheTextEmbeddingUnlink(p) ==
    /\ At(p, "text")
    /\ pc[p].d <= Len(registered)
    /\ Unlink(p, registered[pc[p].d], TextEmbeddingPrefix(pc[p].i), <<pc[p].i>>)
    /\ Goto(p, "text_map", pc[p].i, pc[p].d)
    /\ UNCHANGED trace
    /\ UNCHANGED <<registered, cacheVars, proc_args, columns, device, dataVars,
                   loaderVars, otherVars>>

\* ds._cache_text_embedding(i), second part: the map and the append
CacheTextEmbeddingMap(p) ==
    /\ At(p, "text_map")
    /\ columns' = [columns EXCEPT ![p][pc[p].d].text = Append(@, pending[p].file)]
    /\ Map(p)
    /\ Goto(p, "text", pc[p].i, pc[p].d + 1)
    /\ Log(p, "cache", TextEncoder(pc[p].i), pc[p].d)
    /\ UNCHANGED <<registered, cacheVars, proc_args, device, missed, dataVars, loaderVars, otherVars>>

\* text_encoder.to('cpu'); empty_cuda_cache()
TextEncoderToCpu(p) ==
    /\ At(p, "text")
    /\ pc[p].d > Len(registered)
    /\ device' = [device EXCEPT ![p] = moved(@, TextEncoder(pc[p].i), "cpu")]
    /\ Goto(p, "encoders", pc[p].i + 1, 0)
    /\ Log(p, "back", TextEncoder(pc[p].i), 0)
    /\ UNCHANGED <<disk, registered, cacheVars, proc_args, pending, columns, writers, missed,
                   dataVars, loaderVars, otherVars>>

\* leaving `with zero_first()`: the coordinating process goes to the barrier,
\* the others are through
LeaveZeroFirst(p) ==
    /\ At(p, "encoders")
    /\ pc[p].i >= NumTextEncoders
    /\ IF is_main_process(p) THEN Goto(p, "leave", 0, 0) ELSE Goto(p, "done", 0, 0)
    /\ UNCHANGED trace
    /\ UNCHANGED <<disk, registered, cacheVars, proc_args, pending, columns, device,
                   writers, missed, dataVars, loaderVars, otherVars>>

NextManager ==
    \/ \E p \in Procs : EnterZeroFirst(p)
    \/ Barrier
    \/ \E p \in Procs : VaeToCuda(p)
    \/ \E p \in Procs : CacheLatentsUnlink(p)
    \/ \E p \in Procs : CacheLatentsMap(p)
    \/ \E p \in Procs : VaeToCpu(p)
    \/ \E p \in Procs : TextEncoderToCuda(p)
    \/ \E p \in Procs : CacheTextEmbeddingUnlink(p)
    \/ \E p \in Procs : CacheTextEmbeddingMap(p)
    \/ \E p \in Procs : TextEncoderToCpu(p)
    \/ \E p \in Procs : LeaveZeroFirst(p)

SpecManager == InitManager /\ [][NextManager]_vars

(***************************************************************************)
(* random.seed / random.shuffle / shuffle_with_seed                        *)
(***************************************************************************)
\* The state of the generator: the seed it was last seeded with and the number
\* of shuffled elements since.
random_seed(seed) == [seed |-> seed, draws |-> 0]

\* random.shuffle of [1, ..., n] right after random.seed(0), for n = 0, 1, 2, ...
\* (CPython's Mersenne Twister and Fisher-Yates loop)
ShuffleSeed0 ==
    << <<>>,
       <<1>>,
       <<1, 2>>,
       <<1, 3, 2>>,
       <<3, 1, 2, 4>>,
       <<3, 2, 1, 5, 4>>,
       <<5, 3, 2, 1, 6, 4>>,
       <<5, 3, 2, 1, 6, 4, 7>>,
       <<5, 2, 6, 3, 1, 4, 8, 7>>,
       <<8, 6, 2, 4, 5, 3, 1, 9, 7>>,
       <<8, 9, 2, 6, 4, 5, 3, 1, 10, 7>>,
       <<9, 10, 2, 3, 6, 4, 8, 5, 1, 11, 7>>,
       <<2, 10, 9, 6, 11, 3, 4, 8, 5, 1, 12, 7>>,
       <<2, 11, 10, 6, 12, 3, 4, 8, 9, 5, 1, 13, 7>>,
       <<2, 11, 10, 6, 12, 3, 4, 8, 9, 5, 1, 13, 7, 14>>,
       <<2, 11, 10, 6, 12, 3, 4, 8, 9, 5, 1, 15, 13, 7, 14>>,
       <<11, 15, 6, 2, 10, 3, 4, 12, 14, 8, 9, 5, 1, 7, 16, 13>> >>

\* the same right after random.seed(1) and random.seed(2)
ShuffleSeed1 ==
    << <<>>,
       <<1>>,
       <<2, 1>>,
       <<2, 3, 1>>,
       <<4, 1, 3, 2>>,
       <<3, 4, 5, 1, 2>>,
       <<3, 4, 6, 1, 5, 2>>,
       <<4, 7, 6, 3, 1, 5, 2>>,
       <<4, 7, 2, 6, 8, 1, 5, 3>>,
       <<6, 7, 8, 5, 4, 1, 9, 2, 3>>,
       <<7, 9, 10, 8, 6, 4, 1, 5, 2, 3>>,
       <<7, 9, 11, 8, 6, 4, 1, 5, 2, 10, 3>>,
       <<8, 12, 1, 9, 6, 7, 4, 11, 5, 2, 10, 3>>,
       <<9, 13, 1, 12, 6, 4, 7, 8, 11, 5, 2, 10, 3>>,
       <<14, 11, 1, 13, 7, 6, 4, 9, 8, 12, 5, 2, 10, 3>>,
       <<15, 11, 1, 14, 7, 6, 4, 9, 8, 12, 5, 2, 13, 10, 3>>,
       <<3, 11, 1, 15, 7, 6, 4, 9, 8, 12, 16, 2, 13, 14, 10, 5>> >>

ShuffleSeed2 ==
    << <<>>,
       <<1>>,
       <<2, 1>>,
       <<2, 3, 1>>,
       <<2, 3, 4, 1>>,
       <<3, 2, 4, 5, 1>>,
       <<3, 4, 2, 5, 6, 1>>,
       <<3, 4, 2, 5, 6, 1, 7>>,
       <<6, 4, 5, 2, 3, 7, 8, 1>>,
       <<4, 7, 5, 6, 8, 3, 9, 2, 1>>,
       <<6, 10, 4, 5, 7, 8, 3, 9, 2, 1>>,
       <<8, 11, 4, 5, 3, 9, 7, 6, 10, 2, 1>>,
       <<10, 12, 4, 5, 8, 7, 9, 3, 6, 11, 2, 1>>,
       <<10, 4, 7, 13, 11, 8, 9, 5, 3, 6, 12, 2, 1>>,
       <<10, 4, 7, 13, 11, 8, 9, 5, 3, 6, 12, 2, 1, 14>>,
       <<10, 4, 7, 13, 11, 8, 9, 5, 3, 6, 12, 2, 1, 15, 14>>,
       <<13, 12, 8, 14, 7, 1, 9, 4, 10, 5, 11, 3, 6, 15, 16, 2>> >>

ShuffleTable(st) ==
    CASE st.seed = 0 -> ShuffleSeed0
      [] st.seed = 1 -> ShuffleSeed1
      [] OTHER -> ShuffleSeed2

\* random.shuffle(l) in generator state st: the list is permuted by position as
\* the state dictates, and the state moves on
random_shuffle(l, st) ==
    [list |-> [k \in 1..Len(l) |-> l[ShuffleTable(st)[Len(l) + 1][k]]],
     rng |-> [st EXCEPT !.draws = @ + Len(l)]]

\* a shuffle that seeds the generator and leaves it where the shuffle ended
shuffle_unrestored(l, seed, st) == random_shuffle(l, random_seed(seed))

\* a shuffle that does not seed the generator and does not restore it
shuffle_unseeded(l, seed, st) == random_shuffle(l, st)

\* shuffle_with_seed(l, seed): getstate, seed, shuffle, setstate
shuffle_with_seed(l, seed, st) ==
    LET rng_state == st
        shuffled == random_shuffle(l, random_seed(seed))
    IN  [list |-> shuffled.list, rng |-> rng_state]

(***************************************************************************)
(* SpecShuffle: shuffle_with_seed among other users of the generator       *)
(***************************************************************************)
\* the seeds the shuffle tables cover
Seeds == {0, 1, 2}

\* the lists handed to shuffle_with_seed
ShuffledLists == { [k \in 1..n |-> k] : n \in 1..MaxListLen }

NoShuffle == [seed |-> -1, input |-> <<>>, output |-> <<>>,
              before |-> random_seed(0), after |-> random_seed(0)]

InitShuffle ==
    /\ generator \in { random_seed(seed) : seed \in Seeds }
    /\ last_shuffle = NoShuffle
    /\ prev_shuffle = NoShuffle
    /\ disk = {}
    /\ registered = <<>>
    /\ IdleCache
    /\ IdleManager
    /\ IdleData
    /\ IdleLoader
    /\ IdleSync
    /\ IdleColumns
    /\ IdleScan

\* shuffle_with_seed(l, seed)
ShuffleWithSeed(l, seed) ==
    /\ LET shuffled == shuffle_with_seed(l, seed, generator)
       IN  /\ generator' = shuffled.rng
           /\ last_shuffle' = [seed |-> seed, input |-> l, output |-> shuffled.list,
                               before |-> generator, after |-> shuffled.rng]
    /\ prev_shuffle' = last_shuffle
    /\ UNCHANGED <<disk, registered, cacheVars, managerVars, dataVars, loaderVars,
                   besidesShuffle>>

\* other code draws a value: random.random()
Draw ==
    /\ generator.draws < MaxDraws
    /\ generator' = [generator EXCEPT !.draws = @ + 1]
    /\ UNCHANGED <<last_shuffle, prev_shuffle, disk, registered, cacheVars, managerVars,
                   dataVars, loaderVars, besidesShuffle>>

NextShuffle ==
    \/ \E l \in ShuffledLists, seed \in Seeds : ShuffleWithSeed(l, seed)
    \/ Draw

SpecShuffle == InitShuffle /\ [][NextShuffle]_vars

(***************************************************************************)
(* SizeBucketDataset, ConcatenatedDataset and Dataset as data              *)
(***************************************************************************)
DataProcs == {0, 1}

\* the number of SizeBucketDatasets of each size bucket of a Dataset
Shapes == { <<1>>, <<2>>, <<1, 1>> }

BucketSizes(m) == [1..m -> 1..MaxSamples]

\* what the directory scans of Dataset.__init__ find: for every size bucket, for
\* every directory with samples of that bucket, the number of its samples
ExampleScan == << <<3, 4>>, <<2>> >>   \* a bucket of 7 samples and a bucket of 2

ScanResults ==
    {ExampleScan} \cup
    UNION { IF Len(sh) = 1
            THEN { <<x>> : x \in BucketSizes(sh[1]) }
            ELSE { <<x, y>> : x \in BucketSizes(sh[1]), y \in BucketSizes(sh[2]) } :
            sh \in Shapes }

\* SizeBucketDataset.__init__: the file pairs, sorted by the scan, are shuffled
\* with seed 0; the samples are named by their place in the sorted scan
RECURSIVE NewSizeBucketDatasets(_, _)
NewSizeBucketDatasets(szs, st) ==
    IF szs = <<>> THEN [orders |-> <<>>, rng |-> st]
    ELSE LET ds == shuffle_with_seed([k \in 1..Head(szs) |-> k], 0, st)
             rest == NewSizeBucketDatasets(Tail(szs), ds.rng)
         IN  [orders |-> <<ds.list>> \o rest.orders, rng |-> rest.rng]

RECURSIVE NewBuckets(_, _)
NewBuckets(sz, st) ==
    IF sz = <<>> THEN [orders |-> <<>>, rng |-> st]
    ELSE LET b == NewSizeBucketDatasets(Head(sz), st)
             rest == NewBuckets(Tail(sz), b.rng)
         IN  [orders |-> <<b.orders>> \o rest.orders, rng |-> rest.rng]

Min(a, b) == IF a <= b THEN a ELSE b

\* iteration_order.extend([i]*counts[i]) for i = 1, 2, ...
RECURSIVE Repeated(_, _)
Repeated(counts, i) ==
    IF i > Len(counts) THEN <<>>
    ELSE [k \in 1..counts[i] |-> i] \o Repeated(counts, i + 1)

\* ConcatenatedDataset.__init__: each dataset's index len(ds) times, shuffled
NewConcatenatedDataset(lens, st) == shuffle_with_seed(Repeated(lens, 1), 0, st)

RECURSIVE NewConcatenatedDatasets(_, _)
NewConcatenatedDatasets(sz, st) ==
    IF sz = <<>> THEN [orders |-> <<>>, rng |-> st]
    ELSE LET c == NewConcatenatedDataset(Head(sz), st)
             rest == NewConcatenatedDatasets(Tail(sz), c.rng)
         IN  [orders |-> <<c.list>> \o rest.orders, rng |-> rest.rng]

\* ConcatenatedDataset._make_divisible_by(n): the order it leaves
rounded_up(order, n) ==
    LET new_length == ((Len(order) + n - 1) \div n) * n
    IN  SubSeq(order, 1, Min(new_length, Len(order)))
concat_make_divisible_by(order, n) ==
    LET new_length == (Len(order) \div n) * n
    IN  SubSeq(order, 1, new_length)

\* the warning of _make_divisible_by reads self.datasets[0], which raises when
\* the bucket has no dataset
warning_raises(order, n, datasets, main) ==
    concat_make_divisible_by(order, n) = <<>> /\ main /\ datasets = <<>>

\* Dataset._make_divisible_by(n), after the buckets are trimmed: every bucket's
\* index len(bucket) // n times
all_selections(orders, n) == Repeated([i \in 1..Len(orders) |-> Len(orders[i])], 1)
selections(orders, n) == Repeated([i \in 1..Len(orders) |-> Len(orders[i]) \div n], 1)

\* Dataset.__iter__: start_idx = rank * batch_size; slice(start_idx, start_idx + batch_size)
selector_one_more(data_parallel_rank, batch_size) ==
    [start |-> data_parallel_rank * batch_size,
     stop |-> data_parallel_rank * batch_size + batch_size + 1]
selector_rank_only(data_parallel_rank, batch_size) ==
    [start |-> data_parallel_rank, stop |-> data_parallel_rank + batch_size]
selector(data_parallel_rank, batch_size) ==
    [start |-> data_parallel_rank * batch_size,
     stop |-> data_parallel_rank * batch_size + batch_size]

\* x[selector] of Python: the bounds are clipped to the length
Slice(x, sel) == SubSeq(x, Min(sel.start, Len(x)) + 1, Min(sel.stop, Len(x)))

\* next(iterator) n times on the iterator of bucket i: ConcatenatedDataset.__iter__
\* takes the next index j of its order and the next sample of dataset j;
\* stopped: one of the iterators was exhausted (StopIteration)
RECURSIVE pull(_, _, _, _)
pull(p, i, st, n) ==
    IF n = 0 THEN [examples |-> <<>>, iters |-> st, stopped |-> FALSE]
    ELSE IF st.bucket[i] >= Len(bucket_order[p][i])
         THEN [examples |-> <<>>, iters |-> st, stopped |-> TRUE]
    ELSE LET j == bucket_order[p][i][st.bucket[i] + 1]
             pos == st.ds[i][j]
         IN  IF pos >= Len(sample_order[p][i][j])
             THEN [examples |-> <<>>, iters |-> st, stopped |-> TRUE]
             ELSE LET rest == pull(p, i, [st EXCEPT !.bucket[i] = @ + 1,
                                                     !.ds[i][j] = @ + 1], n - 1)
                  IN  [examples |-> <<<<i, j, sample_order[p][i][j][pos + 1]>>>>
                                        \o rest.examples,
                       iters |-> rest.iters, stopped |-> rest.stopped]

NoDataset == [post_init_called |-> FALSE, data_parallel_rank |-> 0,
              data_parallel_world_size |-> 0, batch_size |-> 0, global_batch_size |-> 0,
              iteration_order |-> <<>>]

NoIters == [k |-> 0, bucket |-> <<>>, ds |-> <<>>]

NoBatch == [global |-> <<>>, local |-> <<>>]

(***************************************************************************)
(* SpecData: two processes build the same Dataset and iterate over it      *)
(***************************************************************************)
InitData ==
    /\ sizes \in ScanResults
    /\ world \in [W : 1..MaxWorld, b : 1..MaxBatch, g : 1..MaxAccum]
    /\ rank \in [DataProcs -> 0..(world.W - 1)]
    /\ rng = [p \in DataProcs |-> random_seed(p + 1)]
    /\ dpc = [p \in DataProcs |-> "new"]
    /\ sample_order = [p \in DataProcs |-> <<>>]
    /\ bucket_order = [p \in DataProcs |-> <<>>]
    /\ dataset = [p \in DataProcs |-> NoDataset]
    /\ iters = [p \in DataProcs |-> NoIters]
    /\ yielded = [p \in DataProcs |-> NoBatch]
    /\ untrimmed = [p \in DataProcs |-> <<>>]
    /\ warned = [p \in DataProcs |-> {}]
    /\ delivered = [p \in DataProcs |-> <<>>]
    /\ disk = {}
    /\ registered = <<>>
    /\ IdleCache
    /\ IdleManager
    /\ IdleLoader
    /\ IdleOther

\* Dataset.__init__: a SizeBucketDataset per directory and size bucket, then a
\* ConcatenatedDataset per size bucket
NewDataset(p) ==
    /\ dpc[p] = "new"
    /\ LET sbd == NewBuckets(sizes, rng[p])
           cat == NewConcatenatedDatasets(sizes, sbd.rng)
       IN  /\ sample_order' = [sample_order EXCEPT ![p] = sbd.orders]
           /\ bucket_order' = [bucket_order EXCEPT ![p] = cat.orders]
           /\ rng' = [rng EXCEPT ![p] = cat.rng]
    /\ dpc' = [dpc EXCEPT ![p] = "built"]
    /\ UNCHANGED <<sizes, world, rank, dataset, iters, yielded, untrimmed, warned,
                   delivered>>
    /\ UNCHANGED <<disk, registered, cacheVars, managerVars, loaderVars, otherVars>>

\* Dataset.post_init(rank, world size, per-device batch size, accumulation steps)
post_init(p) ==
    /\ dpc[p] = "built"
    /\ LET batch_size == world.b * world.g
           global_batch_size == world.W * batch_size
           trimmed == [i \in 1..Len(bucket_order[p]) |->
                          concat_make_divisible_by(bucket_order[p][i], global_batch_size)]
           order == shuffle_with_seed(selections(trimmed, global_batch_size), 0, rng[p])
       IN  IF \E i \in 1..Len(bucket_order[p]) :
                  warning_raises(bucket_order[p][i], global_batch_size, sizes[i],
                                 is_main_process(p))
           THEN /\ dpc' = [dpc EXCEPT ![p] = "raised"]
                /\ UNCHANGED <<bucket_order, untrimmed, warned, rng, dataset>>
           ELSE /\ bucket_order' = [bucket_order EXCEPT ![p] = trimmed]
                /\ untrimmed' = [untrimmed EXCEPT ![p] = bucket_order[p]]
                /\ warned' = [warned EXCEPT ![p] =
                       { i \in 1..Len(trimmed) : trimmed[i] = <<>> /\ is_main_process(p) }]
                /\ rng' = [rng EXCEPT ![p] = order.rng]
                /\ dataset' = [dataset EXCEPT ![p] =
                       [post_init_called |-> TRUE, data_parallel_rank |-> rank[p],
                        data_parallel_world_size |-> world.W, batch_size |-> batch_size,
                        global_batch_size |-> global_batch_size,
                        iteration_order |-> order.list]]
                /\ dpc' = [dpc EXCEPT ![p] = "ready"]
    /\ UNCHANGED <<sizes, world, rank, sample_order, iters, yielded, delivered>>
    /\ UNCHANGED <<disk, registered, cacheVars, managerVars, loaderVars, otherVars>>

\* iter(dataset): a new pass; every bucket and every dataset gets a new iterator
Iter(p) ==
    /\ dpc[p] \in {"ready", "stop"}
    /\ dataset[p].post_init_called
    /\ iters' = [iters EXCEPT ![p] =
           [k |-> 0,
            bucket |-> [i \in 1..Len(sizes) |-> 0],
            ds |-> [i \in 1..Len(sizes) |-> [j \in 1..Len(sizes[i]) |-> 0]]]]
    /\ yielded' = [yielded EXCEPT ![p] = NoBatch]
    /\ delivered' = [delivered EXCEPT ![p] = <<>>]
    /\ dpc' = [dpc EXCEPT ![p] = "iter"]
    /\ UNCHANGED <<sizes, world, rank, rng, sample_order, bucket_order, dataset,
                   untrimmed, warned>>
    /\ UNCHANGED <<disk, registered, cacheVars, managerVars, loaderVars, otherVars>>

\* next() on the iterator of the Dataset: global_batch_size examples of the
\* selected bucket, collated, this rank's slice yielded; StopIteration after the
\* last selection; an exhausted bucket iterator ends the generator with an error
IterNext(p) ==
    /\ dpc[p] = "iter"
    /\ IF iters[p].k >= Len(dataset[p].iteration_order)
       THEN /\ dpc' = [dpc EXCEPT ![p] = "stop"]
            /\ UNCHANGED <<iters, yielded, delivered>>
       ELSE LET i == dataset[p].iteration_order[iters[p].k + 1]
                got == pull(p, i, iters[p], dataset[p].global_batch_size)
                sel == selector(dataset[p].data_parallel_rank, dataset[p].batch_size)
            IN  IF got.stopped
                THEN /\ dpc' = [dpc EXCEPT ![p] = "error"]
                     /\ UNCHANGED <<iters, yielded, delivered>>
                ELSE /\ iters' = [iters EXCEPT ![p] = [got.iters EXCEPT !.k = @ + 1]]
                     /\ yielded' = [yielded EXCEPT ![p] =
                            [global |-> got.examples, local |-> Slice(got.examples, sel)]]
                     /\ delivered' = [delivered EXCEPT ![p] = Append(@, got.examples)]
                     /\ UNCHANGED dpc
    /\ UNCHANGED <<sizes, world, rank, rng, sample_order, bucket_order, dataset,
                   untrimmed, warned>>
    /\ UNCHANGED <<disk, registered, cacheVars, managerVars, loaderVars, otherVars>>

NextData ==
    \/ \E p \in DataProcs : NewDataset(p)
    \/ \E p \in DataProcs : post_init(p)
    \/ \E p \in DataProcs : Iter(p)
    \/ \E p \in DataProcs : IterNext(p)

SpecData == InitData /\ [][NextData]_vars

(***************************************************************************)
(* SpecLoader: PipelineDataLoader over a Dataset of N batches              *)
(***************************************************************************)
\* split_batch(batch, pieces) on a batch of `size` rows: torch.split cuts chunks
\* of split_size = size // pieces rows, the last one shorter when size is no
\* multiple; the result is the list of the chunks' row counts
split_batch_whole(size, pieces) == <<size>>
split_batch(size, pieces) ==
    LET split_size == size \div pieces
        chunks == (size + split_size - 1) \div split_size
    IN  [k \in 1..chunks |-> IF k * split_size <= size THEN split_size
                             ELSE size - (k - 1) * split_size]

\* _create_dataloader: a generator that has not run yet, over a new DataLoader
\*   pos: batches taken from the DataLoader; batch, piece: the microbatch the
\*   generator is suspended at; pieces: the microbatches of that batch
NewGenerator == [pos |-> 0, batch |-> 0, piece |-> 0, pieces |-> 0, finished |-> FALSE]

\* next(self.data): resume _pull_batches_from_dataloader.  The result holds the
\* generator after the step, whether it ended (StopIteration), the number of
\* batches it pulled from the DataLoader in this step, and the microbatch yielded.
gen_next_uncounted(gen, N, size, pieces) ==
    IF gen.finished THEN [gen |-> gen, stop |-> TRUE, pulled |-> 0]
    ELSE IF gen.piece < gen.pieces
         THEN [gen |-> [gen EXCEPT !.piece = @ + 1], stop |-> FALSE, pulled |-> 0]
    ELSE IF gen.pos >= N
         THEN [gen |-> [gen EXCEPT !.finished = TRUE], stop |-> TRUE, pulled |-> 0]
    ELSE [gen |-> [pos |-> gen.pos + 1, batch |-> gen.pos + 1, piece |-> 1,
                   pieces |-> Len(split_batch(size, pieces)), finished |-> FALSE],
          stop |-> FALSE, pulled |-> 0]
gen_next(gen, N, size, pieces) ==
    IF gen.finished THEN [gen |-> gen, stop |-> TRUE, pulled |-> 0]
    ELSE IF gen.piece < gen.pieces
         THEN [gen |-> [gen EXCEPT !.piece = @ + 1], stop |-> FALSE, pulled |-> 0]
    ELSE IF gen.pos >= N
         THEN [gen |-> [gen EXCEPT !.finished = TRUE], stop |-> TRUE, pulled |-> 0]
    ELSE [gen |-> [pos |-> gen.pos + 1, batch |-> gen.pos + 1, piece |-> 1,
                   pieces |-> Len(split_batch(size, pieces)), finished |-> FALSE],
          stop |-> FALSE, pulled |-> 1]

Microbatch(gen, rebuilt) ==
    [raised |-> FALSE, batch |-> gen.batch, piece |-> gen.piece, rebuilt |-> rebuilt]

NothingReturned == [raised |-> FALSE, batch |-> 0, piece |-> 0, rebuilt |-> FALSE]

StopIteration == [raised |-> TRUE, batch |-> 0, piece |-> 0, rebuilt |-> TRUE]

\* PipelineDataLoader.__init__ calls reset(): epoch 1, nothing pulled, new generator
InitLoader ==
    /\ loader \in [N : 0..MaxBatches, b : 1..MaxBatch, g : 1..MaxAccum]
    /\ epoch = 1
    /\ num_batches_pulled = 0
    /\ data = NewGenerator
    /\ returned = NothingReturned
    /\ ncalls_next = 0
    /\ disk = {}
    /\ registered = <<>>
    /\ IdleCache
    /\ IdleManager
    /\ IdleData
    /\ IdleOther

\* PipelineDataLoader.reset
reset ==
    /\ ncalls_next > 0
    /\ epoch' = 1
    /\ num_batches_pulled' = 0
    /\ data' = NewGenerator
    /\ returned' = NothingReturned
    /\ ncalls_next' = 0
    /\ UNCHANGED <<loader, disk, registered, cacheVars, managerVars, dataVars, otherVars>>

\* PipelineDataLoader.__next__: the next microbatch; on StopIteration the
\* dataloader is created anew, its first microbatch taken and the epoch raised.
\* A StopIteration of the new generator leaves __next__ before epoch += 1.
next ==
    /\ ncalls_next < MaxNext
    /\ LET size == loader.b * loader.g
           first == gen_next(data, loader.N, size, loader.g)
           again == gen_next(NewGenerator, loader.N, size, loader.g)
       IN  IF ~first.stop
           THEN /\ data' = first.gen
                /\ num_batches_pulled' = num_batches_pulled + first.pulled
                /\ returned' = Microbatch(first.gen, FALSE)
                /\ UNCHANGED epoch
           ELSE IF ~again.stop
           THEN /\ data' = again.gen
                /\ num_batches_pulled' = 0 + again.pulled
                /\ returned' = Microbatch(again.gen, TRUE)
                /\ epoch' = epoch + 1
           ELSE /\ data' = again.gen
                /\ num_batches_pulled' = 0
                /\ returned' = StopIteration
                /\ UNCHANGED epoch
    /\ ncalls_next' = ncalls_next + 1
    /\ UNCHANGED <<loader, disk, registered, cacheVars, managerVars, dataVars, otherVars>>

NextLoader ==
    \/ next
    \/ reset

SpecLoader == InitLoader /\ [][NextLoader]_vars

(***************************************************************************)
(* SpecSync: PipelineDataLoader.sync_epoch over the world group            *)
(***************************************************************************)
\* the processes of dist.get_world_group()
SyncProcs == 0..(NumProcs - 1)

\* max_epoch = -1; for epoch in result: max_epoch = max(epoch, max_epoch)
RECURSIVE fold_max(_, _)
fold_max(res, max_so_far) ==
    IF res = <<>> THEN max_so_far
    ELSE fold_max(Tail(res), IF Head(res) > max_so_far THEN Head(res) ELSE max_so_far)

last_epoch(res) == res[Len(res)]
max_epoch(res) == fold_max(res, -1)

\* no object handed over yet
NotGathered == 0

InitSync ==
    /\ self_epoch \in [SyncProcs -> 1..MaxEpoch]
    /\ sync_pc = [p \in SyncProcs |-> "before"]
    /\ gathering = [p \in SyncProcs |-> NotGathered]
    /\ result = [p \in SyncProcs |-> <<>>]
    /\ entry_epoch = [p \in SyncProcs |-> 0]
    /\ disk = {}
    /\ registered = <<>>
    /\ IdleCache
    /\ IdleManager
    /\ IdleData
    /\ IdleLoader
    /\ IdleColumns
    /\ IdleScan
    /\ IdleShuffle

\* sync_epoch up to all_gather_object: the process hands over its self.epoch
SyncCall(p) ==
    /\ sync_pc[p] = "before"
    /\ gathering' = [gathering EXCEPT ![p] = self_epoch[p]]
    /\ entry_epoch' = [entry_epoch EXCEPT ![p] = self_epoch[p]]
    /\ sync_pc' = [sync_pc EXCEPT ![p] = "gather"]
    /\ UNCHANGED <<self_epoch, result, disk, registered, cacheVars, managerVars, dataVars,
                   loaderVars, besidesSync>>

\* all_gather_object returns once every process of the group has handed over its
\* object; result then holds the objects by rank
AllGather(p) ==
    /\ sync_pc[p] = "gather"
    /\ \A q \in SyncProcs : gathering[q] # NotGathered
    /\ result' = [result EXCEPT ![p] = [k \in 1..NumProcs |-> gathering[k - 1]]]
    /\ sync_pc' = [sync_pc EXCEPT ![p] = "gathered"]
    /\ UNCHANGED <<self_epoch, gathering, entry_epoch, disk, registered, cacheVars,
                   managerVars, dataVars, loaderVars, besidesSync>>

\* the loop over result and self.epoch = max_epoch
AdoptMax(p) ==
    /\ sync_pc[p] = "gathered"
    /\ self_epoch' = [self_epoch EXCEPT ![p] = max_epoch(result[p])]
    /\ sync_pc' = [sync_pc EXCEPT ![p] = "done"]
    /\ UNCHANGED <<gathering, result, entry_epoch, disk, registered, cacheVars,
                   managerVars, dataVars, loaderVars, besidesSync>>

NextSync ==
    \/ \E p \in SyncProcs : SyncCall(p)
    \/ \E p \in SyncProcs : AllGather(p)
    \/ \E p \in SyncProcs : AdoptMax(p)

SpecSync == InitSync /\ [][NextSync]_vars

(***************************************************************************)
(* SpecColumns: the cached columns of one SizeBucketDataset                *)
(***************************************************************************)
\* a row of a cached column: the sample it was computed from and whether it has
\* the column's new field ('latents' or 'text_embedding')
Row(sample, has_field) == [sample |-> sample, has_field |-> has_field]

\* process_image_fn: None for a row whose image cannot be opened, else the row
\* with its latents
process_image_fn(sample, cannot_open) ==
    IF sample \in cannot_open THEN <<>> ELSE <<Row(sample, TRUE)>>

\* what dataset.map does with rows for which the function returned None: the
\* library leaves the rows out of the column ("dropped"), or raises ("raised"),
\* or returns the dataset as it was, without the new field ("unchanged")
MapOutcomes == {"dropped", "raised", "unchanged"}

RECURSIVE MappedRows(_, _, _)
MappedRows(from, n, cannot_open) ==
    IF from > n THEN <<>>
    ELSE process_image_fn(from, cannot_open) \o MappedRows(from + 1, n, cannot_open)

\* the column _cache_latents stores under the outcome
latent_dataset_of(n, cannot_open, outcome) ==
    IF cannot_open \cap (1..n) = {} \/ outcome = "dropped" THEN MappedRows(1, n, cannot_open)
    ELSE [k \in 1..n |-> Row(k, FALSE)]

\* the column _cache_text_embedding(i) appends: its function returns every row
text_embedding_dataset_of(n) == [k \in 1..n |-> Row(k, TRUE)]

\* SizeBucketDataset.__len__
len_SizeBucketDataset == num_rows

\* SizeBucketDataset.__getitem__(i): column[i][field] of every column
Field(column, i) ==
    IF i + 1 > Len(column) THEN [error |-> "IndexError", sample |-> 0]
    ELSE IF ~column[i + 1].has_field THEN [error |-> "KeyError", sample |-> 0]
    ELSE [error |-> "none", sample |-> column[i + 1].sample]

getitem(i) ==
    LET latents == Field(latent_column, i)
        text_embeddings == [j \in 1..Len(text_columns) |-> Field(text_columns[j], i)]
    IN  [i |-> i,
         error |-> IF latents.error # "none" THEN latents.error
                   ELSE IF \E j \in 1..Len(text_embeddings) : text_embeddings[j].error # "none"
                        THEN "IndexError" ELSE "none",
         latents |-> latents.sample,
         text_embeddings |-> [j \in 1..Len(text_embeddings) |-> text_embeddings[j].sample]]

NotGot == [i |-> -1, error |-> "none", latents |-> 0, text_embeddings |-> <<>>]

InitColumns ==
    /\ num_rows \in 1..MaxSamples
    /\ unreadable \in SUBSET (1..num_rows)
    /\ latent_column = <<>>
    /\ text_columns = <<>>
    /\ col_state = "new"
    /\ item = NotGot
    /\ disk = {}
    /\ registered = <<>>
    /\ IdleCache
    /\ IdleManager
    /\ IdleData
    /\ IdleLoader
    /\ IdleSync
    /\ IdleScan
    /\ IdleShuffle

\* _cache_latents: self.latent_dataset = the mapped column, unless map raises
CacheLatentColumn(outcome) ==
    /\ col_state = "new"
    /\ IF unreadable # {} /\ outcome = "raised"
       THEN /\ col_state' = "raised"
            /\ UNCHANGED latent_column
       ELSE /\ col_state' = "latents"
            /\ latent_column' = latent_dataset_of(num_rows, unreadable, outcome)
    /\ UNCHANGED <<num_rows, unreadable, text_columns, item, disk, registered, cacheVars,
                   managerVars, dataVars, loaderVars, besidesColumns>>

\* _cache_text_embedding(i): self.text_embedding_datasets.append(the mapped column)
CacheTextColumn ==
    /\ col_state = "latents"
    /\ Len(text_columns) < NumTextEncoders
    /\ text_columns' = Append(text_columns, text_embedding_dataset_of(num_rows))
    /\ UNCHANGED <<num_rows, unreadable, latent_column, col_state, item, disk, registered,
                   cacheVars, managerVars, dataVars, loaderVars, besidesColumns>>

\* ds[i] for an i in range(len(ds)), once every column is cached
GetItem(i) ==
    /\ col_state = "latents"
    /\ Len(text_columns) = NumTextEncoders
    /\ i < len_SizeBucketDataset
    /\ item' = getitem(i)
    /\ UNCHANGED <<num_rows, unreadable, latent_column, text_columns, col_state, disk,
                   registered, cacheVars, managerVars, dataVars, loaderVars, besidesColumns>>

NextColumns ==
    \/ \E outcome \in MapOutcomes : CacheLatentColumn(outcome)
    \/ CacheTextColumn
    \/ \E i \in 0..(MaxSamples - 1) : GetItem(i)

SpecColumns == InitColumns /\ [][NextColumns]_vars

(***************************************************************************)
(* Python floats: width / height, bucket_ar - ar, abs and <                *)
(***************************************************************************)
\* a positive float is [inf |-> FALSE, zero |-> FALSE, e |-> e, m |-> bits]: the
\* Precision bits of its significand, the first of them 1, and the exponent of
\* that first bit.  Arithmetic rounds to nearest, ties to even.
Precision == 53

Zeros(n) == [k \in 1..n |-> 0]

FloatZero == [inf |-> FALSE, zero |-> TRUE, e |-> 0, m |-> Zeros(Precision)]

\* float('inf')
FloatInf == [inf |-> TRUE, zero |-> FALSE, e |-> 0, m |-> Zeros(Precision)]

\* 2^n for n in 0..30
Pow2(n) ==
    <<
         1, 2, 4, 8, 16, 32, 64, 128, 256, 512, 1024, 2048, 4096, 8192, 16384, 32768,
         65536, 131072, 262144, 524288, 1048576, 2097152, 4194304, 8388608, 16777216,
         33554432, 67108864, 134217728, 268435456, 536870912, 1073741824
    >>[n + 1]

\* the e with 2^e <= p / q < 2^(e+1), for integers p, q in 1..2^15
Exponent(p, q) ==
    CHOOSE e \in -15..15 :
        IF e >= 0 THEN q * Pow2(e) <= p /\ p < q * Pow2(e + 1)
        ELSE p * Pow2(0 - e) >= q /\ p * Pow2(0 - e - 1) < q

\* (n * 2^j) mod d for j in 0..60 and d < 2^15
ShiftedRemainder(n, d, j) ==
    LET half == j \div 2
    IN  ((n % d) * (((Pow2(half) % d) * (Pow2(j - half) % d)) % d)) % d

\* the first `count` bits of n / d, where 1 <= n / d < 2, and whether a rest
\* remains after them
QuotientBits(n, d, count) ==
    [bits |-> [k \in 1..count |->
                   IF k = 1 THEN n \div d ELSE (2 * ShiftedRemainder(n, d, k - 2)) \div d],
     rest |-> ShiftedRemainder(n, d, count - 1) # 0]

\* bits + 1, and the carry out of the first bit
Increment(bits) ==
    IF \A k \in 1..Len(bits) : bits[k] = 1
    THEN [bits |-> Zeros(Len(bits)), carry |-> 1]
    ELSE LET z == CHOOSE k \in 1..Len(bits) :
                      bits[k] = 0 /\ \A j \in (k + 1)..Len(bits) : bits[j] = 1
         IN  [bits |-> [k \in 1..Len(bits) |->
                            IF k < z THEN bits[k] ELSE IF k = z THEN 1 ELSE 0],
              carry |-> 0]

\* the float nearest to the number with significand `bits` (first bit 1) and
\* exponent e, `rest` telling that less significant bits were cut off already
RoundToFloat(bits, rest, e) ==
    IF Len(bits) <= Precision
    THEN [inf |-> FALSE, zero |-> FALSE, e |-> e, m |-> bits \o Zeros(Precision - Len(bits))]
    ELSE LET m == SubSeq(bits, 1, Precision)
             guard == bits[Precision + 1]
             sticky == rest \/ \E k \in (Precision + 2)..Len(bits) : bits[k] = 1
             up == Increment(m)
         IN  IF guard = 1 /\ (sticky \/ m[Precision] = 1)
             THEN IF up.carry = 1
                  THEN [inf |-> FALSE, zero |-> FALSE, e |-> e + 1,
                        m |-> <<1>> \o Zeros(Precision - 1)]
                  ELSE [inf |-> FALSE, zero |-> FALSE, e |-> e, m |-> up.bits]
             ELSE [inf |-> FALSE, zero |-> FALSE, e |-> e, m |-> m]

\* p / q for integers p, q >= 1
float_div(p, q) ==
    LET e == Exponent(p, q)
        n == IF e >= 0 THEN p ELSE p * Pow2(0 - e)
        d == IF e >= 0 THEN q * Pow2(e) ELSE q
        quot == QuotientBits(n, d, Precision + 1)
    IN  RoundToFloat(quot.bits, quot.rest, e)

LexLess(a, b) ==
    \E k \in 1..Len(a) : a[k] < b[k] /\ \A j \in 1..(k - 1) : a[j] = b[j]

\* x < y for floats that are not negative
float_less(x, y) ==
    IF x.inf THEN FALSE
    ELSE IF y.inf THEN TRUE
    ELSE IF y.zero THEN FALSE
    ELSE IF x.zero THEN TRUE
    ELSE x.e < y.e \/ (x.e = y.e /\ LexLess(x.m, y.m))

\* a - b for bit strings of one length with a >= b; the borrow into position k
\* is 1 when the bits of a after k are a smaller number than those of b
Subtract(a, b) ==
    [k \in 1..Len(a) |->
        LET borrow == IF \E i \in (k + 1)..Len(a) :
                             a[i] < b[i] /\ \A j \in (k + 1)..(i - 1) : a[j] = b[j]
                      THEN 1 ELSE 0
        IN  (a[k] - b[k] - borrow + 2) % 2]

LeadingZeros(bits) ==
    IF \A k \in 1..Len(bits) : bits[k] = 0 THEN Len(bits)
    ELSE (CHOOSE k \in 1..Len(bits) : bits[k] = 1 /\ \A j \in 1..(k - 1) : bits[j] = 0) - 1

\* abs(x - y) for positive floats x and y
float_abs_diff(x, y) ==
    IF x = y THEN FloatZero
    ELSE LET hi == IF float_less(x, y) THEN y ELSE x
             lo == IF float_less(x, y) THEN x ELSE y
             shift == hi.e - lo.e
             diff == Subtract(hi.m \o Zeros(shift), Zeros(shift) \o lo.m)
             lz == LeadingZeros(diff)
         IN  RoundToFloat(SubSeq(diff, lz + 1, Len(diff)), FALSE, hi.e - lz)

(***************************************************************************)
(* SpecScan: Dataset._split_into_size_buckets on one directory             *)
(***************************************************************************)
\* the sizes of the images in the directory and the size buckets of the
\* configuration (resolution 512 with steps of 64, and 768x512)
ImageSizes == { <<700, 500>>, <<800, 900>>, <<512, 512>> }

Buckets == { <<512, 512>>, <<768, 512>>, <<448, 576>> }

\* size_buckets = list(size_buckets): the set in some order
CandidateLists ==
    { l \in UNION { [1..n -> Buckets] : n \in 1..MaxCandidates } :
        \A j, k \in 1..Len(l) : j # k => l[j] # l[k] }

\* what the directory holds under one file stem: a subdirectory, a caption file
\* alone, or an image file that Image.open can or cannot open, with or without
\* its caption file
NoSize == <<0, 0>>

Stems ==
    { [image |-> "none", size |-> NoSize, caption |-> TRUE],
      [image |-> "directory", size |-> NoSize, caption |-> FALSE] }
    \cup [image : {"broken"}, size : {NoSize}, caption : BOOLEAN]
    \cup [image : {"image"}, size : ImageSizes, caption : BOOLEAN]

\* files = list(path.glob('*')); files.sort(): per stem, in order, the image
\* file or subdirectory and then the .txt file
DirEntries(stem, k) ==
    (IF stem.image = "none" THEN <<>>
     ELSE <<[stem |-> k, is_file |-> stem.image # "directory", suffix |-> "image",
             opens |-> stem.image = "image", size |-> stem.size,
             caption |-> stem.caption]>>)
    \o (IF stem.caption
        THEN <<[stem |-> k, is_file |-> TRUE, suffix |-> ".txt", opens |-> FALSE,
                size |-> NoSize, caption |-> TRUE]>>
        ELSE <<>>)

RECURSIVE Listing(_, _)
Listing(stems, k) ==
    IF k > Len(stems) THEN <<>> ELSE DirEntries(stems[k], k) \o Listing(stems, k + 1)

Directories == UNION { [1..n -> Stems] : n \in 0..MaxStems }

\* os.path.exists(caption_file)
caption_assumed(file) == TRUE
caption_exists(file) == file.caption

\* the loop of _find_closest_size_bucket from candidate k on
RECURSIVE closest_from(_, _, _, _, _)
closest_from(ar, candidates, k, best_size_bucket, best_ar_diff) ==
    IF k > Len(candidates) THEN best_size_bucket
    ELSE LET bucket_ar == float_div(candidates[k][1], candidates[k][2])
             ar_diff == float_abs_diff(bucket_ar, ar)
         IN  IF float_less(ar_diff, best_ar_diff)
             THEN closest_from(ar, candidates, k + 1, candidates[k], ar_diff)
             ELSE closest_from(ar, candidates, k + 1, best_size_bucket, best_ar_diff)

\* None
NoBucket == <<>>

\* Dataset._find_closest_size_bucket
find_closest_size_bucket(image_file, candidates) ==
    IF ~image_file.opens THEN NoBucket
    ELSE closest_from(float_div(image_file.size[1], image_file.size[2]), candidates, 1,
                      NoBucket, FloatInf)

NoClosest == [file |-> 0, size_bucket |-> NoBucket]

InitScan ==
    /\ path_kind \in {"missing", "file", "directory"}
    /\ files \in IF path_kind = "directory" THEN { Listing(d, 1) : d \in Directories }
                 ELSE {<<>>}
    /\ size_buckets \in CandidateLists
    /\ scan_pc = "start"
    /\ scan_at = 0
    /\ size_bucket_to_filepaths = [b \in Buckets |-> <<>>]
    /\ scan_warned = {}
    /\ closest = NoClosest
    /\ disk = {}
    /\ registered = <<>>
    /\ IdleCache
    /\ IdleManager
    /\ IdleData
    /\ IdleLoader
    /\ IdleSync
    /\ IdleColumns
    /\ IdleShuffle

\* if not path.exists() or not path.is_dir(): raise RuntimeError; else list and sort
CheckPath ==
    /\ scan_pc = "start"
    /\ IF path_kind # "directory"
       THEN scan_pc' = "raised" /\ UNCHANGED scan_at
       ELSE scan_pc' = "loop" /\ scan_at' = 1
    /\ UNCHANGED <<path_kind, files, size_buckets, size_bucket_to_filepaths, scan_warned,
                   closest, disk, registered, cacheVars, managerVars, dataVars, loaderVars,
                   besidesScan>>

\* one pass of `for file in files`
ScanFile ==
    /\ scan_pc = "loop"
    /\ scan_at <= Len(files)
    /\ LET file == files[scan_at]
           size_bucket == find_closest_size_bucket(file, size_buckets)
       IN  IF ~file.is_file \/ file.suffix = ".txt"
           THEN UNCHANGED <<size_bucket_to_filepaths, scan_warned, closest>>
           ELSE IF ~caption_exists(file)
           THEN /\ scan_warned' = scan_warned \cup {scan_at}
                /\ UNCHANGED <<size_bucket_to_filepaths, closest>>
           ELSE /\ closest' = [file |-> scan_at, size_bucket |-> size_bucket]
                /\ scan_warned' = IF file.opens THEN scan_warned
                                  ELSE scan_warned \cup {scan_at}
                /\ size_bucket_to_filepaths' =
                       IF size_bucket # NoBucket
                       THEN [size_bucket_to_filepaths EXCEPT
                                 ![size_bucket] = Append(@, scan_at)]
                       ELSE size_bucket_to_filepaths
    /\ scan_at' = scan_at + 1
    /\ UNCHANGED <<path_kind, files, size_buckets, scan_pc, disk, registered, cacheVars,
                   managerVars, dataVars, loaderVars, besidesScan>>

\* return size_bucket_to_filepaths
ScanReturn ==
    /\ scan_pc = "loop"
    /\ scan_at > Len(files)
    /\ scan_pc' = "returned"
    /\ UNCHANGED <<path_kind, files, size_buckets, scan_at, size_bucket_to_filepaths,
                   scan_warned, closest, disk, registered, cacheVars, managerVars, dataVars,
                   loaderVars, besidesScan>>

NextScan ==
    \/ CheckPath
    \/ ScanFile
    \/ ScanReturn

SpecScan == InitScan /\ [][NextScan]_vars

(***************************************************************************)
(* Claims on the cache (SpecCache)                                         *)
(***************************************************************************)
\* the cache file prefixes in use
Prefixes == {LatentPrefix} \cup { TextEmbeddingPrefix(i) : i \in TextEncoderIndices }

CacheDirs == { cache_dir(registered[d]) : d \in 1..Len(registered) }

\* C1: when _cache_latents is called on a dataset a second time, directly after
\* the first call and so with unchanged samples, caption parameters and cache
\* directory, the second call computes the same fingerprint, finds the cache file,
\* deletes nothing and recomputes nothing.
C1_CacheIdempotence ==
    (last.kind = "latent" /\ prev.kind = "latent" /\ prev.ds = last.ds)
        => /\ last.fp = prev.fp
           /\ last.hit
           /\ last.deleted = {}
           /\ ~last.recomputed

\* C2: the fingerprint of every _map_and_cache call is
\* hash(extra_params + [base_fingerprint]) with the extra parameters of this call
\* and the fingerprint of this dataset's caption-processed sample list only.
C2_FingerprintPurity ==
    last.kind # "none"
        => last.fp = Hasher_hash(last.params \o <<base_fingerprint(registered[last.ds])>>)

\* the file of the column that call `last` caches, as the process before cached
\* it for the same dataset; {} when it did not
PreviousColumn ==
    IF last.kind = "none" \/ prevrun = NoRun THEN {}
    ELSE IF last.kind = "latent"
         THEN IF prevrun.latent_dataset[last.ds] = <<>> THEN {}
              ELSE {prevrun.latent_dataset[last.ds]}
         ELSE { prevrun.text_embedding_datasets[last.ds][k] :
                    k \in { j \in 1..Len(prevrun.text_embedding_datasets[last.ds]) :
                              prevrun.text_embedding_datasets[last.ds][j].pre = last.pre } }

\* the dataset of call `last` has its cache directory to itself
OwnCacheDir ==
    \A d \in 1..Len(registered) :
        d # last.ds => cache_dir(registered[d]) # cache_dir(registered[last.ds])

\* C3: between two runs over the same directory and size bucket, each caching
\* every column once, if the sample list, shuffle_tags or caption_prefix of the
\* dataset differs, the fingerprint of a cached column differs, the stale file is
\* deleted and the column is recomputed; if nothing of the dataset differs, the
\* fingerprint is the same and nothing is recomputed.
C3_CacheInvalidation ==
    \A old \in PreviousColumn :
        (last.first /\ ~prevrun.repeated /\ OwnCacheDir) =>
            IF registered[last.ds] = prevrun.registered[last.ds]
            THEN last.fp = old.fp /\ ~last.recomputed
            ELSE last.fp # old.fp /\ last.recomputed /\ old \notin disk

\* C4: for every transform prefix a cache directory holds at most one file of
\* that prefix, and after a call the file of the call's prefix is the one named
\* by the call's fingerprint.
C4_SingleGeneration ==
    /\ \A dir \in CacheDirs, pre \in Prefixes : Cardinality(glob(disk, dir, pre)) <= 1
    /\ last.kind # "none"
           => glob(disk, cache_dir(registered[last.ds]), last.pre) = {last.file}

\* a miss that removed the file of an older fingerprint, after an earlier hit
C4_Witness ==
    /\ last.kind = "text"
    /\ last.deleted # {}
    /\ prev.hit
    /\ Cardinality(disk) >= 2

(***************************************************************************)
(* Claims on trimming, selection and sharding (SpecData)                   *)
(***************************************************************************)
Count(seq, x) == Cardinality({ k \in 1..Len(seq) : seq[k] = x })

\* Dataset.__len__
len_Dataset(p) == Len(dataset[p].iteration_order)

\* post_init has returned or raised in process p
PostInitOver(p) == dpc[p] \notin {"new", "built"}

\* C6: _make_divisible_by(n) on a ConcatenatedDataset of length L leaves the
\* prefix of the previous order whose length is the largest multiple of n that
\* is at most L (7 and n = 3: 6; 2 and n = 3: 0), and does not raise, also when
\* that length is 0.
C6_Trimming ==
    \A p \in DataProcs :
        PostInitOver(p) =>
            /\ dpc[p] # "raised"
            /\ \A i \in 1..Len(bucket_order[p]) :
                   LET L == Len(untrimmed[p][i])
                       n == dataset[p].global_batch_size
                       now == bucket_order[p][i]
                   IN  /\ Len(now) <= L
                       /\ now = SubSeq(untrimmed[p][i], 1, Len(now))
                       /\ Len(now) % n = 0
                       /\ L - Len(now) < n
                       /\ (L = 7 /\ n = 3) => Len(now) = 6
                       /\ (L = 2 /\ n = 3) => Len(now) = 0

\* a bucket of 7 trimmed to 6 and a bucket of 2 dropped, by the main process
C6_Witness ==
    /\ dpc[0] = "ready"
    /\ Len(bucket_order[0]) = 2
    /\ dataset[0].global_batch_size = 3
    /\ Len(untrimmed[0][1]) = 7 /\ Len(bucket_order[0][1]) = 6
    /\ Len(untrimmed[0][2]) = 2 /\ bucket_order[0][2] = <<>>
    /\ warned[0] = {2}

\* C7: after post_init the iteration_order holds bucket i exactly
\* len(bucket_i) div global_batch_size times, len(dataset) is the number of
\* selections, and a full iteration yields len(dataset) batches of
\* global_batch_size samples each, no bucket iterator running out before.
C7_SelectionOrder ==
    \A p \in DataProcs :
        (PostInitOver(p) /\ dpc[p] # "raised") =>
            LET n == dataset[p].global_batch_size
                order == dataset[p].iteration_order
            IN  /\ \A k \in 1..Len(order) : order[k] \in 1..Len(bucket_order[p])
                /\ \A i \in 1..Len(bucket_order[p]) :
                       /\ Count(order, i) = Len(bucket_order[p][i]) \div n
                       /\ Count(order, i) = Len(untrimmed[p][i]) \div n
                /\ dpc[p] # "error"
                /\ iters[p].k <= len_Dataset(p)
                /\ dpc[p] = "stop" => iters[p].k = len_Dataset(p)
                /\ (dpc[p] = "iter" /\ iters[p].k > 0) => Len(yielded[p].global) = n

\* a finished pass of three batches or more over two buckets
C7_Witness ==
    /\ dpc[1] = "stop"
    /\ iters[1].k >= 3
    /\ Count(dataset[1].iteration_order, 1) >= 1
    /\ Count(dataset[1].iteration_order, 2) >= 1

\* the positions of the global batch that the selector of rank r takes
Positions(r, p) ==
    LET sel == selector(r, dataset[p].batch_size)
    IN  { q \in 0..(Len(yielded[p].global) - 1) : sel.start <= q /\ q < sel.stop }

\* C8: the batch yielded to rank r is positions [r*b*g, (r+1)*b*g) of the global
\* batch, so b*g long, and the slices of the ranks 0..W-1 are pairwise disjoint
\* and cover the W*b*g positions of the global batch.
C8_RankSharding ==
    \A p \in DataProcs :
        (dpc[p] \in {"iter", "stop"} /\ iters[p].k > 0) =>
            LET bs == world.b * world.g
                G == yielded[p].global
            IN  /\ Len(G) = world.W * bs
                /\ Len(yielded[p].local) = bs
                /\ yielded[p].local = [k \in 1..bs |-> G[rank[p] * bs + k]]
                /\ \A q \in 0..(world.W * bs - 1) :
                       Cardinality({ r \in 0..(world.W - 1) : q \in Positions(r, p) }) = 1

\* the ranks 0 and 2 of 3 both hold a batch of b*g = 2 rows
C8_Witness ==
    /\ rank[0] = 0 /\ rank[1] = 2
    /\ world.b = 1 /\ world.g = 2
    /\ iters[0].k > 0 /\ iters[1].k > 0
    /\ Len(yielded[0].local) = 2 /\ Len(yielded[1].local) = 2

\* C9: two processes with the same inputs and the same world size, batch size
\* and accumulation steps, whatever their ranks and generator states, have the
\* same sample order in every dataset, the same interleave order in every
\* bucket and the same Dataset.iteration_order, and their k-th global batch is
\* the same sequence of samples.
C9_CrossRankDeterminism ==
    \A p, q \in DataProcs :
        /\ (dpc[p] # "new" /\ dpc[q] # "new") => sample_order[p] = sample_order[q]
        /\ (dpc[p] = "built" /\ dpc[q] = "built") => bucket_order[p] = bucket_order[q]
        /\ (dataset[p].post_init_called /\ dataset[q].post_init_called) =>
               /\ bucket_order[p] = bucket_order[q]
               /\ dataset[p].iteration_order = dataset[q].iteration_order
        /\ (dpc[p] = "iter" /\ dpc[q] = "iter" /\ iters[p].k = iters[q].k) =>
               yielded[p].global = yielded[q].global

\* two processes of different ranks at their second batch, the samples of a
\* dataset of four not in scan order
C9_Witness ==
    /\ rank[0] # rank[1]
    /\ dpc[0] = "iter" /\ dpc[1] = "iter"
    /\ iters[0].k = 2 /\ iters[1].k = 2
    /\ Len(sample_order[0][1][1]) = 4
    /\ sample_order[0][1][1] # <<1, 2, 3, 4>>

(***************************************************************************)
(* Claims on the cache pass (SpecManager)                                  *)
(***************************************************************************)
\* the process is inside its cache pass (_cache)
InPass(p) == pc[p].at \notin {"cache", "barrier", "leave", "done"}

\* C5: only the coordinating process ever deletes or writes a cache file; every
\* other process starts its pass only after the coordinating process has finished
\* its own, and finds every fingerprinted file present.
C5_SingleWriter ==
    /\ \A p \in writers : is_main_process(p)
    /\ \A p \in Procs : (~is_main_process(p) /\ InPass(p)) => pc[0].at = "done"
    /\ \A p \in missed : is_main_process(p)

(***************************************************************************)
(* Claims on the PipelineDataLoader (SpecLoader)                           *)
(***************************************************************************)
\* C10: over a Dataset of N >= 1 batches and g accumulation steps the first N*g
\* calls of next() return the microbatches of the first pass in order with
\* epoch 1, call N*g + 1 rebuilds the iterator, returns the first microbatch of
\* the new pass and leaves epoch 2; after k >= 1 calls the epoch is
\* 1 + ((k - 1) div (N*g)).
C10_EpochRollover ==
    (loader.N >= 1 /\ ncalls_next >= 1) =>
        LET k == ncalls_next
            per_pass == loader.N * loader.g
            place == (k - 1) % per_pass
        IN  /\ ~returned.raised
            /\ epoch = 1 + ((k - 1) \div per_pass)
            /\ returned.batch = (place \div loader.g) + 1
            /\ returned.piece = (place % loader.g) + 1
            /\ returned.rebuilt = (k > 1 /\ place = 0)
            /\ k <= per_pass => epoch = 1
            /\ k = per_pass + 1 => (epoch = 2 /\ returned.batch = 1 /\ returned.piece = 1)

\* the fifth call over a Dataset of 2 batches with 2 accumulation steps
C10_Witness ==
    /\ loader.N = 2 /\ loader.g = 2
    /\ ncalls_next = 5
    /\ epoch = 2
    /\ returned.rebuilt

\* C11: whatever the number of batches of the Dataset, no call of next() on a
\* PipelineDataLoader raises StopIteration: every call returns a microbatch.
C11_IndefiniteIteration ==
    ncalls_next >= 1 => (~returned.raised /\ returned.batch >= 1 /\ returned.piece >= 1)

(***************************************************************************)
(* Claims on sync_epoch (SpecSync)                                         *)
(***************************************************************************)
\* the largest epoch a process entered sync_epoch with
LargestEntry == CHOOSE e \in { entry_epoch[q] : q \in SyncProcs } :
                    \A q \in SyncProcs : entry_epoch[q] <= e

\* C12: when all processes of the world group call sync_epoch with local epochs
\* e_1..e_n, every process ends with epoch max(e_1..e_n), and the epoch of no
\* process decreases.
C12_SyncEpoch ==
    \A p \in SyncProcs :
        /\ sync_pc[p] = "done" => self_epoch[p] = LargestEntry
        /\ sync_pc[p] # "before" => self_epoch[p] >= entry_epoch[p]

\* local epochs 1, 1, 2 give 2 on all processes
C12_Witness ==
    /\ \A p \in SyncProcs : sync_pc[p] = "done" /\ self_epoch[p] = 2
    /\ entry_epoch[0] = 1 /\ entry_epoch[1] = 1 /\ entry_epoch[2] = 2

(***************************************************************************)
(* Claims on the model movements of the cache pass (SpecManager)           *)
(***************************************************************************)
\* one cache call per registered dataset, in order, with model m
CacheCalls(m) == [d \in 1..Len(registered) |-> [op |-> "cache", m |-> m, d |-> d]]

\* model m to the accelerator, the cache calls, model m back
Round(m) ==
    <<[op |-> "to", m |-> m, d |-> 0]>> \o CacheCalls(m) \o <<[op |-> "back", m |-> m, d |-> 0]>>

RECURSIVE RoundsFrom(_)
RoundsFrom(i) ==
    IF i >= NumTextEncoders THEN <<>> ELSE Round(TextEncoder(i)) \o RoundsFrom(i + 1)

\* the latent encoder's round, then the rounds of the text encoders in order
MovementOrder == Round(Vae) \o RoundsFrom(0)

\* the models the process holds on the accelerator
OnAccelerator(p) ==
    (IF device[p].vae = "cuda" THEN {Vae} ELSE {})
        \cup { TextEncoder(i) : i \in { k \in 0..(NumTextEncoders - 1) :
                                            device[p].text_encoders[k] = "cuda" } }

\* the model whose round the trace of the process is inside of, if any
InRound(p) ==
    IF trace[p] = <<>> \/ trace[p][Len(trace[p])].op = "back" THEN {}
    ELSE {trace[p][Len(trace[p])].m}

\* C13: on the coordinating process the latent encoder is moved to the
\* accelerator once, _cache_latents runs on every registered dataset and it is
\* moved back; only then each text encoder in order is moved to the accelerator
\* once, _cache_text_embedding(i) runs on every registered dataset and it is
\* moved back before the next one is moved; two models are never on the
\* accelerator at once.
C13_MovementOrder ==
    /\ IsPrefixOf(trace[0], MovementOrder)
    /\ pc[0].at \in {"leave", "done"} => trace[0] = MovementOrder
    /\ Cardinality(OnAccelerator(0)) <= 1
    /\ OnAccelerator(0) = InRound(0)

\* the coordinating process is caching the text embeddings of the last encoder
\* for the last of two datasets, with that encoder alone on the accelerator
C13_Witness ==
    /\ Len(registered) = 2
    /\ pc[0].at = "text_map" /\ pc[0].i = NumTextEncoders - 1 /\ pc[0].d = 2
    /\ OnAccelerator(0) = {TextEncoder(NumTextEncoders - 1)}
    /\ Len(trace[0]) = Len(MovementOrder) - 2

(***************************************************************************)
(* Claims on the columns of a SizeBucketDataset (SpecColumns)              *)
(***************************************************************************)
\* C14: len(ds) is the number of rows of every cached column, and every
\* __getitem__(i) with i < len(ds) succeeds and returns latents and embeddings
\* of one and the same sample, also when the transform failed on some sample.
C14_ColumnAlignment ==
    /\ col_state = "latents" => Len(latent_column) = len_SizeBucketDataset
    /\ \A j \in 1..Len(text_columns) : Len(text_columns[j]) = len_SizeBucketDataset
    /\ item.i >= 0 =>
          /\ item.error = "none"
          /\ \A j \in 1..Len(item.text_embeddings) : item.text_embeddings[j] = item.latents

(***************************************************************************)
(* Claims on the directory scan (SpecScan)                                 *)
(***************************************************************************)
Abs(x) == IF x < 0 THEN 0 - x ELSE x

\* |bw/bh - w/h| <= |cw/ch - w/h| for buckets b, c and an image of size w x h,
\* in exact arithmetic: both sides times h * bh * ch
NoFarther(b, c, size) ==
    Abs(b[1] * size[2] - size[1] * b[2]) * c[2] <= Abs(c[1] * size[2] - size[1] * c[2]) * b[2]

\* the first candidate of the list whose ratio is nearest to w / h
FirstNearest(candidates, size) ==
    candidates[CHOOSE k \in 1..Len(candidates) :
                   /\ \A j \in 1..Len(candidates) : NoFarther(candidates[k], candidates[j], size)
                   /\ \A j \in 1..(k - 1) : ~NoFarther(candidates[j], candidates[k], size)]

\* C15: for a readable image of size w x h and a non-empty candidate list
\* _find_closest_size_bucket returns the first candidate in list order whose
\* ratio bw/bh minimises |bw/bh - w/h|.
C15_ClosestBucket ==
    (closest.file > 0 /\ files[closest.file].opens) =>
        closest.size_bucket = FirstNearest(size_buckets, files[closest.file].size)

\* the number of times file f was appended to some size bucket
TimesIndexed(f) ==
    Cardinality({ at \in Buckets \X (1..Len(files)) :
                      /\ at[2] <= Len(size_bucket_to_filepaths[at[1]])
                      /\ size_bucket_to_filepaths[at[1]][at[2]] = f })

\* the size buckets that hold file f
BucketsOf(f) ==
    { b \in Buckets : \E k \in 1..Len(size_bucket_to_filepaths[b]) :
                          size_bucket_to_filepaths[b][k] = f }

\* an image file with a caption file that can be opened
GoodImage(file) == file.is_file /\ file.suffix # ".txt" /\ file.caption /\ file.opens

\* C16: _split_into_size_buckets raises for a path that is missing or no
\* directory before it indexes any sample; for a directory it does not raise,
\* an image without caption file or one that cannot be opened is in no bucket,
\* and every other image passed by the loop is in exactly one bucket, once.
C16_ScanErrorClasses ==
    /\ path_kind # "directory" =>
          /\ scan_pc \in {"start", "raised"}
          /\ \A b \in Buckets : size_bucket_to_filepaths[b] = <<>>
          /\ closest = NoClosest
    /\ path_kind = "directory" => scan_pc # "raised"
    /\ scan_pc = "raised" => path_kind # "directory"
    /\ \A f \in 1..Len(files) :
          /\ ~GoodImage(files[f]) => BucketsOf(f) = {}
          /\ (GoodImage(files[f]) /\ f < scan_at) =>
                /\ Cardinality(BucketsOf(f)) = 1
                /\ TimesIndexed(f) = 1
                /\ BucketsOf(f) \subseteq { size_buckets[k] : k \in 1..Len(size_buckets) }

\* a scan that returned: the first image has a caption file and cannot be
\* opened, a later one was put into a bucket
C16_Witness ==
    /\ scan_pc = "returned"
    /\ Len(files) >= 3
    /\ files[1].suffix = "image" /\ files[1].caption /\ ~files[1].opens
    /\ \E f \in 1..Len(files) : GoodImage(files[f]) /\ Cardinality(BucketsOf(f)) = 1
    /\ 1 \in scan_warned

(***************************************************************************)
(* Claims on the delivery of a pass (SpecData)                             *)
(***************************************************************************)
\* the samples behind the entries of the trimmed order of bucket i of process p:
\* of each dataset j as many, from the front of its order, as the order names j
Kept(p, i) ==
    UNION { { <<i, j, sample_order[p][i][j][k]>> :
                  k \in 1..Min(Count(bucket_order[p][i], j), Len(sample_order[p][i][j])) } :
               j \in 1..Len(sample_order[p][i]) }

\* the samples of bucket i of process p
AllSamples(p, i) ==
    UNION { { <<i, j, sample_order[p][i][j][k]>> : k \in 1..Len(sample_order[p][i][j]) } :
               j \in 1..Len(sample_order[p][i]) }

\* the places (batch, rank, slot) at which the pass of process p has delivered
\* example e to the ranks 0..W-1
Deliveries(p, e) ==
    { at \in (1..Len(delivered[p])) \X (0..(world.W - 1))
                 \X (1..dataset[p].global_batch_size) :
          LET part == Slice(delivered[p][at[1]], selector(at[2], dataset[p].batch_size))
          IN  at[3] <= Len(part) /\ part[at[3]] = e }

\* C18: in one pass of a post-initialised Dataset, over the ranks 0..W-1, every
\* sample kept by trimming in every bucket is delivered to one rank once, every
\* batch holds samples of one bucket only, and no sample cut off by trimming is
\* delivered.
C18_ExactlyOnce ==
    \A p \in DataProcs :
        dpc[p] \in {"iter", "stop"} =>
            /\ \A n \in 1..Len(delivered[p]) : \A k \in 1..Len(delivered[p][n]) :
                   delivered[p][n][k][1] = delivered[p][n][1][1]
            /\ \A i \in 1..Len(sample_order[p]) :
                   /\ \A e \in Kept(p, i) :
                          /\ Cardinality(Deliveries(p, e)) <= 1
                          /\ dpc[p] = "stop" => Cardinality(Deliveries(p, e)) = 1
                   /\ \A e \in AllSamples(p, i) \ Kept(p, i) : Deliveries(p, e) = {}
            /\ dpc[p] # "error"

\* a full pass over two buckets of 7 and 2 samples with global batch size 3:
\* two batches delivered, three samples cut off
C18_Witness ==
    /\ dpc[0] = "stop"
    /\ Len(delivered[0]) = 2
    /\ Len(sample_order[0]) = 2
    /\ Cardinality(AllSamples(0, 1)) = 7 /\ Cardinality(Kept(0, 1)) = 6
    /\ Cardinality(AllSamples(0, 2)) = 2 /\ Kept(0, 2) = {}
    /\ world.W = 3

(***************************************************************************)
(* Claims on shuffle_with_seed (SpecShuffle)                               *)
(***************************************************************************)
\* C17: after shuffle_with_seed returns, the process-wide generator is in the
\* state it was in before the call, and two calls with the same seed on equal
\* lists give the same permutation.
C17_ShuffleFrame ==
    /\ last_shuffle.after = last_shuffle.before
    /\ prev_shuffle.after = prev_shuffle.before
    /\ (last_shuffle.seed = prev_shuffle.seed /\ last_shuffle.input = prev_shuffle.input)
          => last_shuffle.output = prev_shuffle.output

\* two calls with seed 0 on the list [1, 2, 3], the generator having moved on in
\* between, both gave the permutation of the shuffle table
C17_Witness ==
    /\ last_shuffle.seed = 0 /\ prev_shuffle.seed = 0
    /\ last_shuffle.input = <<1, 2, 3>> /\ prev_shuffle.input = <<1, 2, 3>>
    /\ last_shuffle.before # prev_shuffle.before
    /\ last_shuffle.output = <<1, 3, 2>>
    /\ generator = last_shuffle.before

(***************************************************************************)
(* Claims on what a cache miss deletes (SpecCache)                         *)
(***************************************************************************)
\* C19: a _map_and_cache call deletes only files of its own prefix in the cache
\* directory of its dataset; files of every other prefix and files of other
\* cache directories stay as they are.
C19_MissFrame ==
    [][\A f \in disk \ disk' :
           /\ f.dir = cache_dir(registered'[last'.ds])
           /\ f.pre = last'.pre]_vars

\* text_embedding_1_ has just missed and deleted its old file; a file of
\* text_embedding_10_ in the same directory and a file of another cache
\* directory are still there
C19_Witness ==
    /\ last.kind = "text" /\ last.pre = TextEmbeddingPrefix(0)
    /\ last.deleted # {}
    /\ \E f \in disk : /\ f.dir = cache_dir(registered[last.ds])
                       /\ f.pre = TextEmbeddingPrefix(9)
    /\ \E f \in disk : f.dir # cache_dir(registered[last.ds])

(***************************************************************************)
(* Claims on num_batches_pulled (SpecLoader)                               *)
(***************************************************************************)
\* C20: over a Dataset of N >= 1 batches and g accumulation steps
\* num_batches_pulled stays within 0..N; it is 0 after construction and after
\* reset(); when m >= 1 microbatches of the current pass have been returned it
\* is ceil(m / g), so it is 1 when the first microbatch after a rebuild is
\* returned.
C20_BatchesPulled ==
    loader.N >= 1 =>
        /\ num_batches_pulled >= 0 /\ num_batches_pulled <= loader.N
        /\ ncalls_next = 0 => num_batches_pulled = 0
        /\ ncalls_next >= 1 =>
              LET m == ((ncalls_next - 1) % (loader.N * loader.g)) + 1
              IN  num_batches_pulled = (m + loader.g - 1) \div loader.g
        /\ returned.rebuilt => num_batches_pulled = 1

\* the third call over a Dataset of one batch with 2 accumulation steps has
\* rebuilt the iterator and pulled the one batch again
C20_Witness ==
    /\ loader.N = 1 /\ loader.g = 2
    /\ ncalls_next = 3
    /\ returned.rebuilt
    /\ num_batches_pulled = 1

====
